---- MODULE Spec2Model ----
(***************************************************************************)
(* StepAnimation (src/unnamed/part_000): a sprite-sheet frame sequencer.   *)
(* The model covers the constructor, the interval setter, start, stop,     *)
(* previous, next and the setInterval callback, together with the part of  *)
(* the browser they act on: the container's class list, the graphic's      *)
(* inline transform and the table of scheduled interval timers.            *)
(*                                                                         *)
(* JavaScript numbers that come out of a division (frameInfo.count, and    *)
(* through _initialFrame the frame itself) are modelled exactly, as        *)
(* rationals in lowest terms [num, den] with den > 0.                      *)
(* Container extents are taken non-zero, so no division yields Infinity    *)
(* or NaN; sheet extents may be zero and the sheet may be missing.         *)
(***************************************************************************)
EXTENDS Integers, Sequences, FiniteSets, TLC

\* ------------------------------------------------------------------ bounds
MaxExtent == 3
MaxInterval == 1
MaxTimers == 3
MaxOptFrame == 1

\* --------------------------------------------------------------- constants
INTERVAL == 300

CSS_ACTIVE == "stepanimation--active"
CSS_HORIZONTAL == "stepanimation--horizontal"
CSS_VERTICAL == "stepanimation--vertical"
CSS_REVERSED == "stepanimation--reversed"

DIRECTION_AUTO == "auto"
DIRECTION_HORIZONTAL == "horizontal"
DIRECTION_VERTICAL == "vertical"
DIRECTION_DEFAULT == "vertical"

\* ------------------------------------------------------------ input domains
ContainerExtents == 1..MaxExtent
SheetExtents == 0..MaxExtent
Intervals == (1..MaxInterval) \cup {INTERVAL}
DirectionSelectors == {DIRECTION_AUTO, DIRECTION_HORIZONTAL, DIRECTION_VERTICAL}
OptFrames == 0..MaxOptFrame

\* ---------------------------------------------------------------- numbers
Abs(n) == IF n < 0 THEN -n ELSE n

RECURSIVE GCD(_, _)
GCD(a, b) == IF b = 0 THEN a ELSE GCD(b, a % b)

\* the rational n/d (d > 0) in lowest terms
Rat(n, d) ==
    LET g == GCD(Abs(n), d)
    IN  [num |-> n \div g, den |-> d \div g]

RatInt(n) == [num |-> n, den |-> 1]
\* a + k for an integer k: a in lowest terms leaves the sum in lowest terms
RatAdd(a, k) == [num |-> a.num + k * a.den, den |-> a.den]
RatMul(a, k) == Rat(a.num * k, a.den)
RatLeq(a, b) == a.num * b.den <= b.num * a.den
RatIsInt(a) == a.den = 1

VARIABLES
    container,      \* elements.container: offsetWidth, offsetHeight, classList
    graphic,        \* elements.graphic: isNull, offsetWidth, offsetHeight, transform
    opt_direction,  \* the direction selector passed to the constructor
    thrown,         \* the error the constructor threw, "none" if it returned
    _interval,
    _direction,
    _reversed,
    _active,
    _timer,         \* the handle of the last setInterval call, 0 for null
    _frameInfo,
    _frame,
    timers,         \* the browser's scheduled repeating timers: [id, period]
    nextTimerId,    \* the handle the next setInterval call returns
    op,             \* the operation that produced the current state
    trail,          \* frames of the current run of playback-direction steps
    ss,             \* a SpriteSequence (later revision) instance built from
                    \* the same inputs and given the same calls and ticks
    old             \* a SpriteSequence (oldest revision) instance built from
                    \* the same inputs, operated on its own

vars == <<container, graphic, opt_direction, thrown, _interval, _direction,
          _reversed, _active, _timer, _frameInfo, _frame, timers,
          nextTimerId, op, trail, ss, old>>

config == <<container.offsetWidth, container.offsetHeight, graphic.isNull,
            graphic.offsetWidth, graphic.offsetHeight, opt_direction, thrown,
            _direction, _reversed, _frameInfo>>

\* ---------------------------------------------------------------- helpers
_isHorizontal(direction) == direction = DIRECTION_HORIZONTAL

_getContentDirection_inverted(spritesheet) ==
    IF spritesheet.offsetWidth > spritesheet.offsetHeight
    THEN DIRECTION_VERTICAL
    ELSE DIRECTION_HORIZONTAL

_getContentDirection(spritesheet) ==
    IF spritesheet.offsetWidth > spritesheet.offsetHeight
    THEN DIRECTION_HORIZONTAL
    ELSE IF spritesheet.offsetWidth < spritesheet.offsetHeight
         THEN DIRECTION_VERTICAL
         ELSE DIRECTION_DEFAULT

\* the later SpriteSequence revision resolves 'auto' from the graphic itself
SpriteSequence_calculateDirection(g) ==
    IF g.offsetWidth > g.offsetHeight
    THEN DIRECTION_HORIZONTAL
    ELSE DIRECTION_VERTICAL

_getFrameCount_swappedAxis(c, g, direction) ==
    IF _isHorizontal(direction)
    THEN RatAdd(Rat(g.offsetHeight, c.offsetHeight), -1)
    ELSE RatAdd(Rat(g.offsetWidth, c.offsetWidth), -1)

_getFrameCount(c, g, direction) ==
    IF _isHorizontal(direction)
    THEN RatAdd(Rat(g.offsetWidth, c.offsetWidth), -1)
    ELSE RatAdd(Rat(g.offsetHeight, c.offsetHeight), -1)

_frameInRange_exclusive(frame, frameInfo) ==
    RatLeq(RatInt(0), frame) /\ RatLeq(frame, frameInfo.count)
        /\ frame # frameInfo.count

_frameInRange_noLowerBound(frame, frameInfo) ==
    RatLeq(frame, frameInfo.count)

_frameInRange(frame, frameInfo) ==
    RatLeq(RatInt(0), frame) /\ RatLeq(frame, frameInfo.count)

_initialFrame_zero(reversed, frameInfo) == RatInt(0)

_initialFrame_flipped(reversed, frameInfo) ==
    IF reversed THEN RatInt(0) ELSE frameInfo.count

_initialFrame(reversed, frameInfo) ==
    IF reversed THEN frameInfo.count ELSE RatInt(0)

\* reading a property of a null graphic throws a TypeError
_getContentDirection_throws(g) == g.isNull

_getFrameCount_throws_never(g) == FALSE

_getFrameCount_throws(g) == g.isNull

\* ------------------------------------- SpriteSequence (later revision)
SS_CLASS_NAME_ACTIVE == "spritesequencer--active"
SS_CLASS_NAME_HORIZONTAL == "spritesequencer--horizontal"
SS_CLASS_NAME_VERTICAL == "spritesequencer--vertical"
SS_CLASS_NAME_REVERSED == "spritesequencer--reversed"

SpriteSequence_isHorizontal(direction) == direction = "horizontal"

SpriteSequence_getFrameCount(c, g, direction) ==
    IF SpriteSequence_isHorizontal(direction)
    THEN RatAdd(Rat(g.offsetWidth, c.offsetWidth), -1)
    ELSE RatAdd(Rat(g.offsetHeight, c.offsetHeight), -1)

SpriteSequence_frameInRange(frame, frameInfo) ==
    RatLeq(RatInt(0), frame) /\ RatLeq(frame, frameInfo.count)

SpriteSequence_initialFrame_zero(reversed, frameInfo) == RatInt(0)

SpriteSequence_initialFrame(reversed, frameInfo) ==
    IF reversed THEN frameInfo.count ELSE RatInt(0)

SpriteSequence_calculateNextTransform(frame, frameInfo, reversed, direction) ==
    LET f == IF ~SpriteSequence_frameInRange(frame, frameInfo)
             THEN SpriteSequence_initialFrame(reversed, frameInfo)
             ELSE frame
        offset == RatMul(f, frameInfo.height)
    IN  [frame |-> f,
         transform |-> [axis |-> IF SpriteSequence_isHorizontal(direction)
                                 THEN "X" ELSE "Y",
                        offset |-> offset]]

SpriteSequence_nextOrPrevious(reversed) ==
    IF reversed THEN "previous" ELSE "next"

\* ------------------------------------ SpriteSequence (oldest revision)
Oldest_calculateDirection_upright(g) ==
    IF g.offsetWidth > g.offsetHeight
    THEN "horizontal"
    ELSE "vertical"

Oldest_calculateDirection(g) ==
    IF g.offsetWidth > g.offsetHeight
    THEN "vertical"
    ELSE "horizontal"

Oldest_frameIsInRange(frame, frameInfo) ==
    RatLeq(RatInt(0), frame) /\ RatLeq(frame, frameInfo.count)

Oldest_calculateNextFrame(frame, frameInfo, reversed, direction) ==
    LET f == IF ~Oldest_frameIsInRange(frame, frameInfo)
             THEN (IF reversed THEN frameInfo.count ELSE RatInt(0))
             ELSE frame
        y == RatMul(f, frameInfo.height)
    IN  [frame |-> f,
         transform |-> [axis |-> IF direction = "horizontal" THEN "Y" ELSE "X",
                        offset |-> y]]

\* ------------------------------------------------------------- constructor
\* the graphic's inline style before any step wrote it
NoTransform == [axis |-> "none", offset |-> RatInt(0)]

\* placeholders for fields the constructor never assigned before it threw
UndefinedFrameInfo == [width |-> 0, height |-> 0, count |-> RatInt(0)]
UndefinedFrame == RatInt(0)

\* the SpriteSequence instance its constructor leaves behind (or the error
\* it throws) for a container c and a graphic g
SpriteSequence_constructor(c, g, interval, dir, rev) ==
    LET throwsDirection == dir = "auto" /\ g.isNull
        resolved ==
            IF dir = "auto" /\ ~throwsDirection
            THEN SpriteSequence_calculateDirection(g)
            ELSE dir
        classes ==
            IF throwsDirection
            THEN {}
            ELSE (IF rev THEN {SS_CLASS_NAME_REVERSED} ELSE {})
                 \cup {IF SpriteSequence_isHorizontal(resolved)
                       THEN SS_CLASS_NAME_HORIZONTAL
                       ELSE SS_CLASS_NAME_VERTICAL}
        failed == g.isNull
        frameInfo ==
            IF failed
            THEN UndefinedFrameInfo
            ELSE [width |-> c.offsetWidth, height |-> c.offsetHeight,
                  count |-> SpriteSequence_getFrameCount(c, g, resolved)]
    IN  [thrown |-> IF failed THEN "TypeError" ELSE "none",
         classList |-> classes,
         transform |-> NoTransform,
         _interval |-> interval,
         _direction |-> resolved,
         _reversed |-> rev,
         _active |-> FALSE,
         _timer |-> 0,
         _frameInfo |-> frameInfo,
         _frame |-> IF failed THEN UndefinedFrame
                    ELSE SpriteSequence_initialFrame(rev, frameInfo),
         timers |-> {},
         nextTimerId |-> 1]

\* the instance the oldest revision's constructor leaves behind (or the
\* error it throws): the frame starts at 0 and the count is taken along the
\* width whatever the direction
Oldest_constructor(c, g, interval, dir, rev) ==
    LET failed == g.isNull
        resolved ==
            IF dir = "auto" /\ ~failed
            THEN Oldest_calculateDirection(g)
            ELSE dir
    IN  [thrown |-> IF failed THEN "TypeError" ELSE "none",
         classList |-> {},
         transform |-> NoTransform,
         _interval |-> interval,
         _direction |-> resolved,
         _reversed |-> rev,
         _active |-> FALSE,
         _timer |-> 0,
         _frameInfo |->
            IF failed
            THEN UndefinedFrameInfo
            ELSE [width |-> c.offsetWidth, height |-> c.offsetHeight,
                  count |-> RatAdd(Rat(g.offsetWidth, c.offsetWidth), -1)],
         _frame |-> RatInt(0),
         timers |-> {},
         nextTimerId |-> 1,
         op |-> "constructor"]

\* no instance of the oldest revision has been built
Oldest_absent ==
    [thrown |-> "absent", classList |-> {}, transform |-> NoTransform,
     _interval |-> 0, _direction |-> "auto", _reversed |-> FALSE,
     _active |-> FALSE, _timer |-> 0, _frameInfo |-> UndefinedFrameInfo,
     _frame |-> UndefinedFrame, timers |-> {}, nextTimerId |-> 1,
     op |-> "none"]

\* the state after new StepAnimation(...) and new SpriteSequence(...) (later
\* revision) on the same inputs; withOldest: an instance of the oldest
\* revision is built on them as well
Construct(withOldest) ==
    \E cw \in ContainerExtents, ch \in ContainerExtents, isNull \in BOOLEAN,
       gw \in SheetExtents, gh \in SheetExtents, interval \in Intervals,
       dir \in DirectionSelectors, rev \in BOOLEAN :
        LET c == [offsetWidth |-> cw, offsetHeight |-> ch]
            g == [isNull |-> isNull, offsetWidth |-> gw, offsetHeight |-> gh]
            throwsDirection ==
                dir = DIRECTION_AUTO /\ _getContentDirection_throws(g)
            resolved ==
                IF dir = DIRECTION_AUTO /\ ~throwsDirection
                THEN _getContentDirection(g)
                ELSE dir
            classes ==
                IF throwsDirection
                THEN {}
                ELSE (IF rev THEN {CSS_REVERSED} ELSE {})
                     \cup {IF _isHorizontal(resolved)
                           THEN CSS_HORIZONTAL ELSE CSS_VERTICAL}
            throwsCount == ~throwsDirection /\ _getFrameCount_throws(g)
            failed == throwsDirection \/ throwsCount
            frameInfo ==
                IF failed
                THEN UndefinedFrameInfo
                ELSE [width |-> cw, height |-> ch,
                      count |-> _getFrameCount(c, g, resolved)]
        IN  /\ (isNull => gw = 0 /\ gh = 0)
            /\ container = [offsetWidth |-> cw, offsetHeight |-> ch,
                            classList |-> classes]
            /\ graphic = [isNull |-> isNull, offsetWidth |-> gw,
                          offsetHeight |-> gh, transform |-> NoTransform]
            /\ opt_direction = dir
            /\ thrown = IF failed THEN "TypeError" ELSE "none"
            /\ _interval = interval
            /\ _direction = resolved
            /\ _reversed = rev
            /\ _active = FALSE
            /\ _timer = 0
            /\ _frameInfo = frameInfo
            /\ _frame = IF failed THEN UndefinedFrame
                        ELSE _initialFrame(rev, frameInfo)
            /\ timers = {}
            /\ nextTimerId = 1
            /\ op = "constructor"
            /\ trail = IF failed THEN << >>
                       ELSE << IF rev THEN frameInfo.count ELSE RatInt(0) >>
            /\ ss = SpriteSequence_constructor(c, g, interval, dir, rev)
            /\ old = IF withOldest
                     THEN Oldest_constructor(c, g, interval, dir, rev)
                     ELSE Oldest_absent

Init == Construct(FALSE)

OldestInit == Construct(TRUE)

\* an instance exists only if the constructor returned
Constructed == thrown = "none"

\* ------------------------------------------------------------ start / stop
\* the instance fields and the browser state that start, stop and the
\* interval setter can reach
Playback ==
    [classList |-> container.classList, _interval |-> _interval,
     _active |-> _active, _timer |-> _timer, timers |-> timers,
     nextTimerId |-> nextTimerId, _frame |-> _frame]

SetPlayback(s) ==
    /\ container' = [container EXCEPT !.classList = s.classList]
    /\ _interval' = s._interval
    /\ _active' = s._active
    /\ _timer' = s._timer
    /\ timers' = s.timers
    /\ nextTimerId' = s.nextTimerId
    /\ _frame' = s._frame

setInterval(s) ==
    [s EXCEPT !.timers = @ \cup {[id |-> s.nextTimerId, period |-> s._interval]},
              !._timer = s.nextTimerId,
              !.nextTimerId = @ + 1]

clearInterval_noop(s) == s

clearInterval(s) ==
    [s EXCEPT !.timers = {t \in @ : t.id # s._timer}]

start_unguarded(s) ==
    [setInterval(s) EXCEPT !.classList = @ \cup {CSS_ACTIVE}, !._active = TRUE]

start_fromInitialFrame(s) ==
    IF s._active
    THEN s
    ELSE [setInterval(s) EXCEPT !.classList = @ \cup {CSS_ACTIVE},
                                !._active = TRUE,
                                !._frame = IF _reversed THEN _frameInfo.count
                                           ELSE RatInt(0)]

start(s) ==
    IF s._active
    THEN s
    ELSE [setInterval(s) EXCEPT !.classList = @ \cup {CSS_ACTIVE},
                                !._active = TRUE]

stop_idleResetsHandle(s) ==
    IF ~s._active
    THEN [s EXCEPT !._timer = 0]
    ELSE [clearInterval(s) EXCEPT !.classList = @ \ {CSS_ACTIVE},
                                  !._active = FALSE]

stop_keepsClass(s) ==
    IF ~s._active
    THEN s
    ELSE [clearInterval(s) EXCEPT !._active = FALSE]

stop(s) ==
    IF ~s._active
    THEN s
    ELSE [clearInterval(s) EXCEPT !.classList = @ \ {CSS_ACTIVE},
                                  !._active = FALSE]

interval_setter_noRestart(s, interval) ==
    [s EXCEPT !._interval = interval]

interval_setter_onlyIfActive(s, interval) ==
    IF s._active
    THEN start([stop(s) EXCEPT !._interval = interval])
    ELSE [s EXCEPT !._interval = interval]

interval_setter(s, interval) ==
    start([stop(s) EXCEPT !._interval = interval])

SpriteSequence_start(s) ==
    IF s._active
    THEN s
    ELSE [setInterval(s) EXCEPT !.classList = @ \cup {SS_CLASS_NAME_ACTIVE},
                                !._active = TRUE]

SpriteSequence_stop(s) ==
    IF ~s._active
    THEN s
    ELSE [clearInterval(s) EXCEPT !.classList = @ \ {SS_CLASS_NAME_ACTIVE},
                                  !._active = FALSE]

SpriteSequence_interval_setter(s, interval) ==
    SpriteSequence_start([SpriteSequence_stop(s) EXCEPT !._interval = interval])

Start(opt_frame) ==
    /\ Constructed
    /\ nextTimerId <= MaxTimers
    /\ SetPlayback(start(Playback))
    /\ ss' = SpriteSequence_start(ss)
    /\ op' = "start"
    /\ UNCHANGED <<graphic, opt_direction, thrown, _direction, _reversed,
                   _frameInfo, trail, old>>

Stop ==
    /\ Constructed
    /\ SetPlayback(stop(Playback))
    /\ ss' = SpriteSequence_stop(ss)
    /\ op' = "stop"
    /\ UNCHANGED <<graphic, opt_direction, thrown, _direction, _reversed,
                   _frameInfo, trail, old>>

SetIntervalProperty(interval) ==
    /\ Constructed
    /\ nextTimerId <= MaxTimers
    /\ SetPlayback(interval_setter(Playback, interval))
    /\ ss' = SpriteSequence_interval_setter(ss, interval)
    /\ op' = "interval"
    /\ UNCHANGED <<graphic, opt_direction, thrown, _direction, _reversed,
                   _frameInfo, trail, old>>

\* ------------------------------------------------------------------- steps
\* the frame and the transform _calculateNextTransform leaves behind, given
\* the frame previous() or next() has just decremented or incremented
_calculateNextTransform(frame, frameInfo, reversed, direction) ==
    LET f == IF ~_frameInRange(frame, frameInfo)
             THEN _initialFrame(reversed, frameInfo)
             ELSE frame
        offset == RatMul(f, frameInfo.height)
    IN  [frame |-> f,
         transform |-> [axis |-> IF _isHorizontal(direction) THEN "X" ELSE "Y",
                        offset |-> offset]]

previous_frame(frame) == RatAdd(frame, -1)

next_frame(frame) == RatAdd(frame, 1)

\* which of previous()/next() the timer callback calls
_nextOrPrevious_swapped(reversed) == IF reversed THEN "next" ELSE "previous"

_nextOrPrevious(reversed) == IF reversed THEN "previous" ELSE "next"

\* the run of playback-direction steps: it begins whenever the frame is the
\* initial frame and ends with the step that brings the frame back to it
Extend(t, which, f) ==
    LET first == IF _reversed THEN _frameInfo.count ELSE RatInt(0)
    IN  IF which # (IF _reversed THEN "previous" ELSE "next")
        THEN (IF f = first THEN << f >> ELSE << >>)
        ELSE IF t = << >>
             THEN (IF f = first THEN << f >> ELSE << >>)
             ELSE IF Len(t) > 1 /\ t[Len(t)] = first
                  THEN << first, f >>
                  ELSE Append(t, f)

Step_wrapWritesCount(which) ==
    \E moved \in {IF which = "previous"
                  THEN previous_frame(_frame)
                  ELSE next_frame(_frame)} :
    \E r \in {_calculateNextTransform(moved, _frameInfo, _reversed,
                                       _direction)} :
        /\ _frame' = r.frame
        /\ _frameInfo' = IF r.frame # moved
                         THEN [_frameInfo EXCEPT !.count = RatInt(0)]
                         ELSE _frameInfo
        /\ graphic' = [graphic EXCEPT !.transform = r.transform]
        /\ trail' = Extend(trail, which, r.frame)
        /\ UNCHANGED <<container, opt_direction, thrown, _interval, _direction,
                       _reversed, _active, _timer, timers, nextTimerId>>

Step(which) ==
    \E moved \in {IF which = "previous"
                  THEN previous_frame(_frame)
                  ELSE next_frame(_frame)} :
    \E r \in {_calculateNextTransform(moved, _frameInfo, _reversed,
                                       _direction)} :
        /\ _frame' = r.frame
        /\ graphic' = [graphic EXCEPT !.transform = r.transform]
        /\ trail' = Extend(trail, which, r.frame)
        /\ UNCHANGED <<container, opt_direction, thrown, _interval, _direction,
                       _reversed, _active, _timer, _frameInfo, timers,
                       nextTimerId>>

\* previous() or next() of the SpriteSequence instance
SpriteSequence_step(s, which) ==
    LET moved == RatAdd(s._frame, IF which = "previous" THEN -1 ELSE 1)
        r == SpriteSequence_calculateNextTransform(moved, s._frameInfo,
                                                   s._reversed, s._direction)
    IN  [s EXCEPT !._frame = r.frame, !.transform = r.transform]

\* the callback of the SpriteSequence instance's timer, if one is scheduled
SpriteSequence_tick(s) ==
    IF s.timers = {}
    THEN s
    ELSE SpriteSequence_step(s, SpriteSequence_nextOrPrevious(s._reversed))

Previous ==
    /\ Constructed
    /\ Step("previous")
    /\ ss' = SpriteSequence_step(ss, "previous")
    /\ UNCHANGED old
    /\ op' = "previous"

Next_ ==
    /\ Constructed
    /\ Step("next")
    /\ ss' = SpriteSequence_step(ss, "next")
    /\ UNCHANGED old
    /\ op' = "next"

\* the browser runs the callback of a scheduled timer
Tick ==
    /\ Constructed
    /\ \E t \in timers : Step(_nextOrPrevious(_reversed))
    /\ ss' = SpriteSequence_tick(ss)
    /\ UNCHANGED old
    /\ op' = "tick"

Next ==
    \/ \E opt_frame \in OptFrames : Start(opt_frame)
    \/ Stop
    \/ \E interval \in Intervals : SetIntervalProperty(interval)
    \/ Previous
    \/ Next_
    \/ Tick

Spec == Init /\ [][Next]_vars

\* ---------------------------------- the oldest revision, on its own
current == <<container, graphic, opt_direction, thrown, _interval, _direction,
             _reversed, _active, _timer, _frameInfo, _frame, timers,
             nextTimerId, op, trail, ss>>

Oldest_step(s, which) ==
    LET moved == RatAdd(s._frame, IF which = "previous" THEN -1 ELSE 1)
        r == Oldest_calculateNextFrame(moved, s._frameInfo, s._reversed,
                                       s._direction)
    IN  [s EXCEPT !._frame = r.frame, !.transform = r.transform]

Oldest_start ==
    /\ old.thrown = "none"
    /\ old.nextTimerId <= MaxTimers
    /\ old' = [(IF old._active
                THEN old
                ELSE [setInterval(old) EXCEPT
                        !.classList = @ \cup {SS_CLASS_NAME_ACTIVE},
                        !._active = TRUE])
               EXCEPT !.op = "start"]
    /\ UNCHANGED current

Oldest_stop ==
    /\ old.thrown = "none"
    /\ old' = [(IF ~old._active
                THEN old
                ELSE [clearInterval(old) EXCEPT
                        !.classList = @ \ {SS_CLASS_NAME_ACTIVE},
                        !._active = FALSE])
               EXCEPT !.op = "stop"]
    /\ UNCHANGED current

Oldest_previous ==
    /\ old.thrown = "none"
    /\ old' = [Oldest_step(old, "previous") EXCEPT !.op = "previous"]
    /\ UNCHANGED current

Oldest_next ==
    /\ old.thrown = "none"
    /\ old' = [Oldest_step(old, "next") EXCEPT !.op = "next"]
    /\ UNCHANGED current

Oldest_tick ==
    /\ old.thrown = "none"
    /\ \E t \in old.timers :
          old' = [Oldest_step(old, IF old._reversed THEN "previous" ELSE "next")
                  EXCEPT !.op = "tick"]
    /\ UNCHANGED current

OldestNext ==
    \/ Oldest_start
    \/ Oldest_stop
    \/ Oldest_previous
    \/ Oldest_next
    \/ Oldest_tick

OldestSpec == OldestInit /\ [][OldestNext]_vars

\* a scheduled repeating timer keeps firing: the browser runs its callback
\* again and again for as long as it stays scheduled
\* Playback runs are followed for constructions from one-row geometry (the
\* container and the sheet one unit high) with the default interval.
LiveInit ==
    /\ Init
    /\ _interval = INTERVAL
    /\ container.offsetHeight = 1
    /\ graphic.offsetHeight = 1

FairSpec == LiveInit /\ [][Next]_vars /\ WF_vars(Tick)

\* ================================================================== claims
Zero == RatInt(0)
Count == _frameInfo.count
CountIsNat == RatIsInt(Count) /\ Count.num >= 0
\* the extents along the sequence axis
SheetExtent ==
    IF _direction = DIRECTION_HORIZONTAL
    THEN graphic.offsetWidth ELSE graphic.offsetHeight
ContainerExtent ==
    IF _direction = DIRECTION_HORIZONTAL
    THEN container.offsetWidth ELSE container.offsetHeight

\* C1: whenever frameInfo.count >= 0, the current frame lies in
\* [0, frameInfo.count] after any sequence of operations and ticks.
C1_WrapInvariant ==
    (Constructed /\ RatLeq(Zero, Count))
        => (RatLeq(Zero, _frame) /\ RatLeq(_frame, Count))

\* a forward run has gone past the last frame and wrapped back to 0
C1_Witness ==
    /\ Constructed /\ ~_reversed /\ CountIsNat /\ Count.num = 1
    /\ op = "tick"
    /\ trail = << RatInt(0), RatInt(1), RatInt(0) >>
    /\ _frame = Zero

\* C2: with integer frameInfo.count = N >= 0, a run of playback-direction
\* steps that begins at the initial frame visits 0..N in order (N..0 when
\* reversed), each index once, and its (N+1)-th step, and no earlier one,
\* brings the frame back to the initial frame.
C2_Cyclic ==
    (Constructed /\ CountIsNat /\ trail # << >>)
        => LET N == Count.num
               first == IF _reversed THEN N ELSE 0
           IN  /\ Len(trail) <= N + 2
               /\ trail[Len(trail)] = _frame
               /\ \A i \in 1..Len(trail) :
                    trail[i] = RatInt(IF i = N + 2 THEN first
                                      ELSE IF _reversed THEN N - (i - 1)
                                      ELSE i - 1)

\* a reversed instance with three frames has completed one full cycle
C2_Witness ==
    /\ Constructed /\ _reversed /\ CountIsNat /\ Count.num = 2
    /\ Len(trail) = 4
    /\ _frame = RatInt(2)
    /\ op = "previous"

\* C3 as stated: next() at the last frame leaves frame 0 and previous() at
\* frame 0 leaves the last frame, whatever the reversed flag
\* (taken over instances with frameInfo.count >= 0).
C3_Original ==
    [][ (Constructed /\ RatLeq(Zero, Count))
          => /\ (op' = "next" /\ _frame = Count) => _frame' = Zero
             /\ (op' = "previous" /\ _frame = Zero) => _frame' = Count ]_vars

\* C3 amended: a step past a bound leaves the frame at the initial frame of
\* the playback direction: next() at frameInfo.count leaves 0 when not
\* reversed and frameInfo.count when reversed; previous() at 0 leaves
\* frameInfo.count when reversed and 0 when not reversed.
C3_WrapToInitial ==
    [][ Constructed
          => /\ (op' \in {"next", "tick"} /\ ~_reversed /\ _frame = Count)
                    => _frame' = Zero
             /\ (op' = "next" /\ _reversed /\ _frame = Count)
                    => _frame' = Count
             /\ (op' \in {"previous", "tick"} /\ _reversed /\ _frame = Zero)
                    => _frame' = Count
             /\ (op' = "previous" /\ ~_reversed /\ _frame = Zero)
                    => _frame' = Zero ]_vars

\* next() at the last frame of a forward instance has wrapped to frame 0
C3_Witness ==
    /\ Constructed /\ ~_reversed /\ CountIsNat /\ Count.num = 2
    /\ op = "next"
    /\ Len(trail) = 4
    /\ _frame = Zero

\* C4: exactly one repeating timer is scheduled while active, none while not
\* active; the scheduled timer is the one the instance holds the handle of.
C4_SingleTimer ==
    /\ Cardinality(timers) = (IF _active THEN 1 ELSE 0)
    /\ \A t \in timers : t.id = _timer

\* running again after a stop, then start() called once more
C4_Witness ==
    /\ Constructed /\ _active /\ op = "start"
    /\ nextTimerId = 3
    /\ Cardinality(timers) = 1

\* C5: stop() on an instance that is not active changes nothing.
C5_StopIdleNoOp ==
    [][ (op' = "stop" /\ ~_active)
          => UNCHANGED <<container, graphic, opt_direction, thrown, _interval,
                         _direction, _reversed, _active, _timer, _frameInfo,
                         _frame, timers, nextTimerId, trail>> ]_vars

\* stop() has been called on an instance that was never started
C5_Witness ==
    /\ Constructed /\ op = "stop" /\ ~_active
    /\ _timer = 0 /\ nextTimerId = 1
    /\ timers = {}
    /\ CSS_ACTIVE \notin container.classList

\* C6: direction 'auto' resolves to horizontal for a sheet wider than tall and
\* to vertical otherwise (taller, or square: the default); an explicit
\* direction is kept. The later SpriteSequence revision resolves 'auto' to
\* the same direction.
C6_Direction ==
    Constructed
        => IF opt_direction = DIRECTION_AUTO
           THEN LET expected == IF graphic.offsetWidth > graphic.offsetHeight
                                THEN "horizontal" ELSE "vertical"
                IN  /\ _direction = expected
                    /\ SpriteSequence_calculateDirection(graphic) = expected
           ELSE _direction = opt_direction

\* a square sheet under 'auto'
C6_Witness ==
    /\ Constructed /\ opt_direction = DIRECTION_AUTO
    /\ graphic.offsetWidth = 2 /\ graphic.offsetHeight = 2
    /\ _direction = "vertical"

\* C7: right after construction the frame is frameInfo.count when reversed
\* and 0 otherwise, and the instance is idle with no timer scheduled.
C7_InitialFrame ==
    (Constructed /\ op = "constructor")
        => /\ _frame = (IF _reversed THEN Count ELSE Zero)
           /\ ~_active
           /\ timers = {}
           /\ _timer = 0

\* a reversed instance with three frames, just constructed
C7_Witness ==
    /\ Constructed /\ op = "constructor" /\ _reversed
    /\ Count = RatInt(2) /\ _frame = RatInt(2)

\* C8 as stated: every construction from non-zero extents has
\* frameInfo.count >= 0.
C8_Original ==
    (Constructed /\ graphic.offsetWidth > 0 /\ graphic.offsetHeight > 0)
        => RatLeq(Zero, Count)

\* C8 amended: for a construction from non-zero extents,
\* frameInfo.count >= 0 exactly when the sheet is at least as long as the
\* container along the sequence axis.
C8_CountSign ==
    (Constructed /\ graphic.offsetWidth > 0 /\ graphic.offsetHeight > 0)
        => (RatLeq(Zero, Count) <=> SheetExtent >= ContainerExtent)

\* a sheet one and a half containers long
C8_Witness ==
    /\ Constructed /\ op = "constructor"
    /\ graphic.offsetWidth > 0 /\ graphic.offsetHeight > 0
    /\ SheetExtent = 3 /\ ContainerExtent = 2
    /\ Count = [num |-> 1, den |-> 2]

\* C9: with no sprite-sheet child the constructor throws, whatever the
\* direction selector and the reversed flag; no instance exists, so no
\* operation ever runs and no timer is scheduled.
C9_MissingSheet ==
    graphic.isNull
        => /\ thrown # "none"
           /\ op = "constructor"
           /\ timers = {}
           /\ ~_active

\* the sheet is missing and the direction was given explicitly
C9_Witness ==
    /\ graphic.isNull /\ opt_direction = DIRECTION_HORIZONTAL /\ _reversed
    /\ thrown = "TypeError"

\* C10 as stated: a sheet that is present but has zero extent along the
\* sequence axis makes the constructor fail.
C10_ZeroExtentFails ==
    (~graphic.isNull /\ SheetExtent = 0) => thrown # "none"

\* the frame a step in the instance's playback direction leads to
PlaybackStepFrame ==
    LET moved == RatAdd(_frame, IF _reversed THEN -1 ELSE 1)
    IN  IF RatLeq(Zero, moved) /\ RatLeq(moved, Count)
        THEN moved
        ELSE IF _reversed THEN Count ELSE Zero

C12_TimerPeriod ==
    [][ /\ _active' => timers' = {[id |-> _timer', period |-> _interval']}
        /\ op' = "interval" => timers' \cap timers = {} ]_vars

\* the interval was set on a running instance: the first timer is gone and
\* the second has the new period
C12_Witness ==
    /\ Constructed /\ op = "interval" /\ _active
    /\ _interval = 1
    /\ timers = {[id |-> 2, period |-> 1]}

\* C13 as stated: after a step the sheet is translated along the resolved
\* axis by the current frame times the frame extent along that axis.
C13_StepOffset ==
    (Constructed /\ op \in {"next", "previous", "tick"})
        => /\ graphic.transform.axis =
                (IF _direction = "horizontal" THEN "X" ELSE "Y")
           /\ graphic.transform.offset =
                RatMul(_frame, IF _direction = "horizontal"
                               THEN _frameInfo.width ELSE _frameInfo.height)

\* C14: a tick performs the one step of the playback direction (next when
\* not reversed, previous when reversed) and leaves active, reversed and
\* the interval alone.
C14_TickDispatch ==
    [][ op' = "tick"
          => /\ _frame' = PlaybackStepFrame
             /\ UNCHANGED <<_active, _reversed, _interval>> ]_vars

\* a tick of a reversed instance has stepped back from the last frame
C14_Witness ==
    /\ Constructed /\ _reversed /\ CountIsNat /\ Count.num = 2
    /\ op = "tick" /\ _active
    /\ trail = << RatInt(2), RatInt(1) >>
    /\ _frame = RatInt(1)

\* C15: a tick happens only while active; while not active the frame changes
\* only through explicit previous()/next() calls.
C15_NoTickWhileIdle ==
    [][ /\ op' = "tick" => _active
        /\ (~_active /\ _frame' # _frame) => op' \in {"previous", "next"} ]_vars

\* a stopped instance, stepped by an explicit next()
C15_Witness ==
    /\ Constructed /\ ~_active /\ _timer = 1 /\ timers = {}
    /\ op = "next"
    /\ ~_reversed /\ CountIsNat /\ Count.num = 2
    /\ _frame = RatInt(2)

\* C16: no operation and no tick changes frameInfo, the resolved direction
\* or the reversed flag.
C16_ConfigFrozen ==
    [][ UNCHANGED <<_frameInfo, _direction, _reversed>> ]_vars

\* an instance that was restarted and whose playback has wrapped
C16_Witness ==
    /\ Constructed /\ _reversed /\ CountIsNat /\ Count.num = 1
    /\ nextTimerId = 3 /\ _active
    /\ op = "tick"
    /\ trail = << RatInt(1), RatInt(0), RatInt(1) >>
    /\ _frameInfo.count = RatInt(1)

\* C17: the container carries the active class exactly when the instance is
\* active.
C17_ActiveClass ==
    (CSS_ACTIVE \in container.classList) <=> _active

\* a started instance has been stopped
C17_Witness ==
    /\ Constructed /\ op = "stop" /\ ~_active
    /\ _timer = 1
    /\ CSS_ACTIVE \notin container.classList

\* C18 as stated: when the sheet extent is not a multiple of the container
\* extent, frameInfo.count is the floor of sheet extent over container
\* extent, minus one, hence an integer (taken over sheets longer than the
\* container).
C18_CountFloored ==
    (Constructed /\ SheetExtent > ContainerExtent
                 /\ SheetExtent % ContainerExtent # 0)
        => Count = RatInt((SheetExtent \div ContainerExtent) - 1)

\* C19: the interval setter always ends with the instance active and exactly
\* one timer scheduled, also when the instance was idle before.
C19_IntervalSetStarts ==
    op = "interval" => (_active /\ Cardinality(timers) = 1)

\* the interval was set on an instance that had never been started
C19_Witness ==
    /\ Constructed /\ op = "interval"
    /\ _timer = 1 /\ nextTimerId = 2
    /\ _active /\ timers = {[id |-> 1, period |-> _interval]}

\* C20: with integer frameInfo.count = N >= 0, if from some point on the
\* instance stays active and no explicit previous()/next() call is made any
\* more, then under weak fairness of the tick every index of 0..N is the
\* current frame infinitely often, reversed or not.
C20_PlaybackLiveness ==
    \A i \in 0..MaxExtent :
        (<>[](_active /\ op \notin {"previous", "next"}))
            => []<>((CountIsNat /\ i <= Count.num) => _frame = RatInt(i))

\* a running forward instance that explicit calls had moved, taken back to
\* frame 0 by a tick past the last frame
C20_Witness ==
    /\ Constructed /\ ~_reversed /\ CountIsNat /\ Count.num = 2
    /\ _active /\ op = "tick"
    /\ trail = << RatInt(0) >>
    /\ _frame = Zero
    /\ graphic.transform.axis # "none"

\* C21 as stated: for a construction from non-zero extents with
\* frameInfo.count >= 0, the offset a step applies keeps the container's
\* window on the sheet: 0 <= offset and offset + container extent <= sheet
\* extent, along the sequence axis.
C21_WindowOnSheet ==
    (/\ Constructed
     /\ graphic.offsetWidth > 0 /\ graphic.offsetHeight > 0
     /\ RatLeq(Zero, Count)
     /\ op \in {"next", "previous", "tick"})
        => /\ RatLeq(Zero, graphic.transform.offset)
           /\ RatLeq(RatAdd(graphic.transform.offset, ContainerExtent),
                     RatInt(SheetExtent))

\* C22: built from the same geometry, interval, direction selector and
\* reversed flag and given the same calls and ticks, the later SpriteSequence
\* revision and StepAnimation agree, after every operation, on the resolved
\* direction, frameInfo.count, the current frame, active and the applied
\* translation (and on whether the constructor threw and a timer is
\* scheduled).
C22_RevisionsAgree ==
    /\ ss.thrown = thrown
    /\ Constructed
         => /\ ss._direction = _direction
            /\ ss._frameInfo.count = Count
            /\ ss._frame = _frame
            /\ ss._active = _active
            /\ ss.transform = graphic.transform
            /\ Cardinality(ss.timers) = Cardinality(timers)

\* a square sheet under 'auto', reversed, restarted by the interval setter
\* and stepped by a tick
C22_Witness ==
    /\ Constructed /\ opt_direction = "auto" /\ _reversed
    /\ graphic.offsetWidth = 2 /\ graphic.offsetHeight = 2
    /\ container.offsetWidth = 1 /\ container.offsetHeight = 1
    /\ op = "tick" /\ nextTimerId = 3
    /\ ss._direction = "vertical"
    /\ ss._frame = Zero
    /\ ss.transform = [axis |-> "Y", offset |-> Zero]
    /\ ss._active

====
